---- MODULE Spec2Model ----
(***************************************************************************)
(* A model of the teaching notebooks of the Week-Two homework repository.  *)
(*                                                                         *)
(* The state is the state a Jupyter kernel keeps between cells: the set of *)
(* names bound in the interpreter namespace, the values of the names the   *)
(* cells read, the two CSV files on disk, and the outcome and output of    *)
(* the cell that ran last.  Every code cell is an action; a cell with a    *)
(* loop over data is a begin action, one step per iteration and an end     *)
(* action, and no other cell runs while it is in progress (the kernel runs *)
(* one cell at a time).                                                    *)
(*                                                                         *)
(* Text is a sequence of one-character strings, so that splitting a line,  *)
(* stripping its newline, parsing a number and formatting a row are        *)
(* computed as the code computes them.  A Point coordinate is an integer   *)
(* count of quarters (0.25 is 1, 1.5 is 6): binary floating point adds     *)
(* such values exactly.                                                    *)
(***************************************************************************)
EXTENDS Integers, Sequences, FiniteSets, TLC

VARIABLES
    defined,             \* names bound in the interpreter namespace
    cell,                \* the cell that ran last: name, outcome, error
    stdout,              \* what the cell that ran last has printed
    pc,                  \* the cell in progress, or "idle"
    iterpos,             \* items the running for statement has fetched
    csv_text,            \* DaysToRespondToGraffiti-1.csv on disk
    out_csv,             \* out.csv on disk
    f,                   \* the input file object: "unbound", "open", "closed"
    graffiti_data_raw,   \* list of the lines, each without its newline
    graffiti_data,       \* list of rows, each a list of field texts
    just_grafitti_data,  \* graffiti_data without its first row
    filtered_values,
    filtered_dates,
    new_graffiti_data,   \* list of (date, value) pairs
    out_file,            \* the output file object: open flag and buffer
    points,              \* the Point instances bound to p1 and p2
    track,               \* history: per instance, the point it was constructed
                         \* at and the sums of the dx and dy passed to translate
    L, it,               \* the list L and the list iterator it
    calls,               \* next() calls made on it since iter(L)
    returned,            \* the elements those calls returned, in order
    gens,                \* the generator objects made by generate_ints
    yielded,             \* per generator, the values it has yielded so far
    total,               \* the global total of the loop and reduce cells
    rand_list,           \* the list random.sample returned
    args,                \* arguments of the call the cell that ran last made
    result,              \* what that call returned
    add_seen             \* history: every <<x, y, add(x, y)>> returned so far

csvVars == <<csv_text, out_csv, f, graffiti_data_raw, graffiti_data, just_grafitti_data,
             filtered_values, filtered_dates, new_graffiti_data, out_file>>
pointVars == <<points, track>>
iterVars == <<L, it, calls, returned>>
genVars == <<gens, yielded>>
funcVars == <<total, rand_list, args, result, add_seen>>
kernelVars == <<defined, cell, stdout, pc, iterpos>>
vars == <<kernelVars, csvVars, pointVars, iterVars, genVars, funcVars>>

----------------------------------------------------------------------------
(* Bounds of the model. *)

MaxRows == 2

\* Coordinates stay within -MaxDelta..MaxCoord quarters.
MaxCoord == 6

\* A translate call other than the notebook's moves by at most MaxDelta quarters.
MaxDelta == 1

\* Lists given to iter() have at most MaxLen elements, each in 1..MaxLen.
MaxLen == 3

\* next() is called at most MaxExtra times on an exhausted iterator.
MaxExtra == 2

\* At most MaxGens generator objects are alive, each made with N <= MaxN.
MaxGens == 2

MaxN == 3

----------------------------------------------------------------------------
(* Text helpers: Python's str methods on sequences of characters. *)

Min(a, b) == IF a < b THEN a ELSE b

NL == "\n"

COMMA == ","

Whitespace == {" ", NL}

\* str.split(sep): the fields between separators; "" splits to [""].
RECURSIVE SplitAcc(_, _, _)
SplitAcc(s, sep, cur) ==
    IF s = <<>> THEN <<cur>>
    ELSE IF Head(s) = sep THEN <<cur>> \o SplitAcc(Tail(s), sep, <<>>)
    ELSE SplitAcc(Tail(s), sep, Append(cur, Head(s)))

Split(s, sep) == SplitAcc(s, sep, <<>>)

\* str.rstrip(ch): every trailing ch removed.
RECURSIVE RStrip(_, _)
RStrip(s, ch) ==
    IF s # <<>> /\ s[Len(s)] = ch THEN RStrip(SubSeq(s, 1, Len(s) - 1), ch) ELSE s

\* Iterating a text file: the lines, each with its terminating newline; a
\* last line without one is a line too.
RECURSIVE LinesAcc(_, _)
LinesAcc(s, cur) ==
    IF s = <<>> THEN (IF cur = <<>> THEN <<>> ELSE <<cur>>)
    ELSE IF Head(s) = NL THEN <<Append(cur, NL)>> \o LinesAcc(Tail(s), <<>>)
    ELSE LinesAcc(Tail(s), Append(cur, Head(s)))

FileLines(text) == LinesAcc(text, <<>>)

\* str.strip(): leading and trailing whitespace removed (float() does this).
RECURSIVE LStripWs(_)
LStripWs(s) == IF s # <<>> /\ Head(s) \in Whitespace THEN LStripWs(Tail(s)) ELSE s

RECURSIVE RStripWs(_)
RStripWs(s) ==
    IF s # <<>> /\ s[Len(s)] \in Whitespace
    THEN RStripWs(SubSeq(s, 1, Len(s) - 1)) ELSE s

Strip(s) == RStripWs(LStripWs(s))

\* The Python string of a sequence of characters.
RECURSIVE Str(_)
Str(chars) == IF chars = <<>> THEN "" ELSE Head(chars) \o Str(Tail(chars))

\* ", ".join(items)
RECURSIVE JoinComma(_)
JoinComma(items) ==
    IF items = <<>> THEN ""
    ELSE IF Len(items) = 1 THEN items[1]
    ELSE items[1] \o ", " \o JoinComma(Tail(items))

\* repr() of a list whose items have the reprs given
ReprList(reprs) == "[" \o JoinComma(reprs) \o "]"

\* repr() of a list of ints
ReprInts(ns) == ReprList([k \in 1..Len(ns) |-> ToString(ns[k])])

\* repr() of a list of lists of strings without quotes or escapes
ReprRows(rows) ==
    ReprList([k \in 1..Len(rows) |->
        ReprList([j \in 1..Len(rows[k]) |-> "'" \o Str(rows[k][j]) \o "'"])])

DigitChars == {"0", "1", "2", "3", "4", "5", "6", "7", "8", "9"}

DigitVal(c) ==
    CASE c = "0" -> 0 [] c = "1" -> 1 [] c = "2" -> 2 [] c = "3" -> 3
      [] c = "4" -> 4 [] c = "5" -> 5 [] c = "6" -> 6 [] c = "7" -> 7
      [] c = "8" -> 8 [] c = "9" -> 9

NotANumber == [ok |-> FALSE, num |-> 0, den |-> 1]

\* The decimal part of float(): digits with at most one point and at least
\* one digit.  The value is num/den.
RECURSIVE ParseDec(_, _, _, _, _)
ParseDec(s, num, den, dot, digits) ==
    IF s = <<>> THEN (IF digits > 0 THEN [ok |-> TRUE, num |-> num, den |-> den]
                      ELSE NotANumber)
    ELSE IF Head(s) \in DigitChars
         THEN ParseDec(Tail(s), num * 10 + DigitVal(Head(s)),
                       IF dot THEN den * 10 ELSE den, dot, digits + 1)
    ELSE IF Head(s) = "." /\ ~dot THEN ParseDec(Tail(s), num, den, TRUE, digits)
    ELSE NotANumber

\* float(text) for decimal literals: optional surrounding whitespace, optional
\* sign, digits with an optional point.  ok = FALSE is ValueError.
float(s) ==
    LET t == Strip(s)
        signed == t # <<>> /\ Head(t) \in {"+", "-"}
        body == IF signed THEN Tail(t) ELSE t
        r == ParseDec(body, 0, 1, FALSE, 0)
    IN  IF signed /\ Head(t) = "-" THEN [r EXCEPT !.num = 0 - r.num] ELSE r

----------------------------------------------------------------------------
(* The interpreter: cell outcomes and name lookup. *)

NoCell == [name |-> "none", outcome |-> "none", err |-> "", at |-> "", msg |-> ""]

Running(name) ==
    [name |-> name, outcome |-> "running", err |-> "", at |-> "", msg |-> ""]

Ok(name) == [name |-> name, outcome |-> "ok", err |-> "", at |-> "", msg |-> ""]

\* The cell ends with an uncaught exception of type err raised at expression at.
Raised(name, err, at, msg) ==
    [name |-> name, outcome |-> "error", err |-> err, at |-> at, msg |-> msg]

NameErrorMsg(n) == "name '" \o n \o "' is not defined"

\* The names of ns that the cell reads, in reading order, that are unbound.
Unbound(ns, reads) == SelectSeq(reads, LAMBDA n : n \notin ns)

\* An interpreter that lets a read of an unbound name pass.
NameErrorIgnored(name, ns, reads) == Ok(name)

\* Reading an unbound name raises NameError for the first such name.
NameError(name, ns, reads) ==
    LET n == Head(Unbound(ns, reads)) IN Raised(name, "NameError", n, NameErrorMsg(n))

----------------------------------------------------------------------------
(* The CSV exercise: read, filter and write cells. *)

Threshold == 15

\* "MONTH, AVG \n"
HeaderLine == <<"M", "O", "N", "T", "H", ",", " ", "A", "V", "G", " ", NL>>

\* A slice that keeps the first element: s[0:]
RestFromFirst(s) == s

\* seq[1:]
Rest(s) == SubSeq(s, 2, Len(s))

\* A zip that goes on to the end of the longer input and pads with None.
ZipLongest(a, b) ==
    [k \in 1..(IF Len(a) > Len(b) THEN Len(a) ELSE Len(b)) |->
        <<IF k <= Len(a) THEN a[k] ELSE "None", IF k <= Len(b) THEN b[k] ELSE "None">>]

\* list(zip(a, b))
Zip(a, b) == [k \in 1..Min(Len(a), Len(b)) |-> <<a[k], b[k]>>]

\* A write that re-formats the value as the number it parses to (16 as 16.0).
FormatRowAsNumber(pair) == pair[1] \o <<COMMA>> \o pair[2] \o <<".", "0", NL>>

\* A write that leaves the value out.
FormatRowDateOnly(pair) == pair[1] \o <<NL>>

\* f'{pair[0]},{pair[1]}\n'
FormatRow(pair) == pair[1] \o <<COMMA>> \o pair[2] \o <<NL>>

\* line.rstrip('\n').split(',')
ParseLine(line) == Split(RStrip(line, NL), COMMA)

\* float(row[1]) > 15, for a value that parsed
Exceeds(v) == v.num > Threshold * v.den

\* A buffered write-back at offset 0 of a file holding disk.
Overwrite(disk, buf) == buf \o SubSeq(disk, Len(buf) + 1, Len(disk))

ClosedFile == [open |-> FALSE, buf |-> <<>>]

\* The read cell up to its for statement.
ReadBegin ==
    /\ pc = "idle"
    /\ graffiti_data' = <<>>
    /\ f' = "open"
    /\ defined' = defined \cup {"graffiti_data", "f"}
    /\ pc' = "read"
    /\ iterpos' = 0
    /\ cell' = Running("read")
    /\ stdout' = <<>>
    /\ UNCHANGED <<csv_text, graffiti_data_raw, out_csv, just_grafitti_data, filtered_values,
                   filtered_dates, new_graffiti_data, out_file>>
    /\ UNCHANGED <<pointVars, iterVars, genVars, funcVars>>

\* One iteration of "for line in f".
ReadStep ==
    /\ pc = "read"
    /\ iterpos < Len(FileLines(csv_text))
    /\ LET line == FileLines(csv_text)[iterpos + 1]
           row == ParseLine(line)
       IN  graffiti_data' = Append(graffiti_data, row)
    /\ defined' = defined \cup {"line", "row"}
    /\ iterpos' = iterpos + 1
    /\ UNCHANGED <<cell, stdout, pc, csv_text, graffiti_data_raw, out_csv, f, just_grafitti_data,
                   filtered_values, filtered_dates, new_graffiti_data, out_file>>
    /\ UNCHANGED <<pointVars, iterVars, genVars, funcVars>>

\* The file is exhausted: the with block closes it, the list is printed.
ReadEnd ==
    /\ pc = "read"
    /\ iterpos = Len(FileLines(csv_text))
    /\ f' = "closed"
    /\ stdout' = <<ReprRows(graffiti_data)>>
    /\ cell' = Ok("read")
    /\ pc' = "idle"
    /\ UNCHANGED <<defined, iterpos, csv_text, graffiti_data_raw, out_csv, graffiti_data,
                   just_grafitti_data, filtered_values, filtered_dates,
                   new_graffiti_data, out_file>>
    /\ UNCHANGED <<pointVars, iterVars, genVars, funcVars>>

\* The filter cell up to its for statement.
FilterBegin ==
    /\ pc = "idle"
    /\ stdout' = <<>>
    /\ IF "graffiti_data" \notin defined
       THEN /\ cell' = NameError("filter", defined, <<"graffiti_data">>)
            /\ UNCHANGED <<defined, pc, iterpos, just_grafitti_data,
                           filtered_values, filtered_dates>>
       ELSE /\ just_grafitti_data' = Rest(graffiti_data)
            /\ filtered_values' = <<>>
            /\ filtered_dates' = <<>>
            /\ defined' = defined \cup {"just_grafitti_data", "filtered_values",
                                        "filtered_dates"}
            /\ pc' = "filter"
            /\ iterpos' = 0
            /\ cell' = Running("filter")
    /\ UNCHANGED <<csv_text, graffiti_data_raw, out_csv, f, graffiti_data, new_graffiti_data, out_file>>
    /\ UNCHANGED <<pointVars, iterVars, genVars, funcVars>>

\* A loop body that takes a second field that is no number for 0.
FilterRaisesOnlyIndexError(row) == IF Len(row) < 2 THEN "IndexError" ELSE ""

\* The body of "for row in just_grafitti_data" for a fetched row: what it
\* raises, if anything ("" when it completes).
FilterRaises(row) ==
    IF Len(row) < 2 THEN "IndexError"
    ELSE IF ~float(row[2]).ok THEN "ValueError"
    ELSE ""

\* Whether the body appends the row to the filtered lists.
FilterKeeps(row) == Exceeds(float(row[2]))

\* A loop that moves on only from a row it keeps or fails on.
FilterStepStaysOnRow ==
    /\ pc = "filter"
    /\ iterpos < Len(just_grafitti_data)
    /\ LET row == just_grafitti_data[iterpos + 1]
           err == FilterRaises(row)
       IN  /\ iterpos' = IF err = "" /\ ~FilterKeeps(row) THEN iterpos ELSE iterpos + 1
           /\ defined' = defined \cup {"row"}
           /\ IF err # ""
              THEN /\ cell' = Raised("filter", err,
                                     IF err = "IndexError" THEN "row[1]"
                                     ELSE "float(row[1])",
                                     IF err = "IndexError"
                                     THEN "list index out of range"
                                     ELSE "could not convert string to float")
                   /\ pc' = "idle"
                   /\ UNCHANGED <<filtered_dates, filtered_values>>
              ELSE /\ IF FilterKeeps(row)
                      THEN /\ filtered_dates' = Append(filtered_dates, row[1])
                           /\ filtered_values' = Append(filtered_values, row[2])
                      ELSE UNCHANGED <<filtered_dates, filtered_values>>
                   /\ UNCHANGED <<cell, pc>>
    /\ UNCHANGED <<stdout, csv_text, graffiti_data_raw, out_csv, f, graffiti_data,
                   just_grafitti_data, new_graffiti_data, out_file>>
    /\ UNCHANGED <<pointVars, iterVars, genVars, funcVars>>

\* One iteration of the filter loop.
FilterStep ==
    /\ pc = "filter"
    /\ iterpos < Len(just_grafitti_data)
    /\ LET row == just_grafitti_data[iterpos + 1]
           err == FilterRaises(row)
       IN  /\ iterpos' = iterpos + 1
           /\ defined' = defined \cup {"row"}
           /\ IF err # ""
              THEN /\ cell' = Raised("filter", err,
                                     IF err = "IndexError" THEN "row[1]"
                                     ELSE "float(row[1])",
                                     IF err = "IndexError"
                                     THEN "list index out of range"
                                     ELSE "could not convert string to float")
                   /\ pc' = "idle"
                   /\ UNCHANGED <<filtered_dates, filtered_values>>
              ELSE /\ IF FilterKeeps(row)
                      THEN /\ filtered_dates' = Append(filtered_dates, row[1])
                           /\ filtered_values' = Append(filtered_values, row[2])
                      ELSE UNCHANGED <<filtered_dates, filtered_values>>
                   /\ UNCHANGED <<cell, pc>>
    /\ UNCHANGED <<stdout, csv_text, graffiti_data_raw, out_csv, f, graffiti_data,
                   just_grafitti_data, new_graffiti_data, out_file>>
    /\ UNCHANGED <<pointVars, iterVars, genVars, funcVars>>

\* After the loop: the plot, labelled with the two fields of the first row.
FilterEnd ==
    /\ pc = "filter"
    /\ iterpos = Len(just_grafitti_data)
    /\ pc' = "idle"
    /\ defined' = defined \cup {"plt"}
    /\ cell' = IF Len(graffiti_data) = 0
               THEN Raised("filter", "IndexError", "graffiti_data[0]",
                           "list index out of range")
               ELSE IF Len(graffiti_data[1]) < 2
               THEN Raised("filter", "IndexError", "graffiti_data[0][1]",
                           "list index out of range")
               ELSE Ok("filter")
    /\ UNCHANGED <<stdout, iterpos, csvVars>>
    /\ UNCHANGED <<pointVars, iterVars, genVars, funcVars>>

\* The write cell up to its for statement: the pairs are zipped, out.csv is
\* opened for writing (which truncates it on disk), the previous file object
\* bound to out_file, if it was left open, is finalized and writes its buffer
\* back, the header and the first pair are written to the new buffer.
WriteBegin ==
    /\ pc = "idle"
    /\ stdout' = <<>>
    /\ IF Unbound(defined, <<"filtered_dates", "filtered_values">>) # <<>>
       THEN /\ cell' = NameError("write", defined,
                                 <<"filtered_dates", "filtered_values">>)
            /\ UNCHANGED <<defined, pc, iterpos, new_graffiti_data, out_file, out_csv>>
       ELSE LET pairs == Zip(filtered_dates, filtered_values)
                disk  == IF out_file.open THEN Overwrite(<<>>, out_file.buf) ELSE <<>>
            IN  /\ new_graffiti_data' = pairs
                /\ out_csv' = disk
                /\ defined' = defined \cup {"new_graffiti_data", "out_file"}
                /\ IF Len(pairs) = 0
                   THEN /\ out_file' = [open |-> TRUE, buf |-> HeaderLine]
                        /\ cell' = Raised("write", "IndexError",
                                          "new_graffiti_data[0]",
                                          "list index out of range")
                        /\ UNCHANGED <<pc, iterpos>>
                   ELSE /\ out_file' = [open |-> TRUE,
                                        buf |-> HeaderLine \o FormatRow(pairs[1])]
                        /\ cell' = Running("write")
                        /\ pc' = "write"
                        /\ iterpos' = 0
    /\ UNCHANGED <<csv_text, graffiti_data_raw, f, graffiti_data, just_grafitti_data,
                   filtered_values, filtered_dates>>
    /\ UNCHANGED <<pointVars, iterVars, genVars, funcVars>>

\* One iteration of "for i in range(1, len(new_graffiti_data))".
WriteStep ==
    /\ pc = "write"
    /\ iterpos < Len(new_graffiti_data) - 1
    /\ LET i == iterpos + 1
       IN  out_file' = [out_file EXCEPT !.buf = @ \o FormatRow(new_graffiti_data[i + 1])]
    /\ iterpos' = iterpos + 1
    /\ defined' = defined \cup {"i"}
    /\ UNCHANGED <<cell, stdout, pc, csv_text, graffiti_data_raw, out_csv, f, graffiti_data,
                   just_grafitti_data, filtered_values, filtered_dates,
                   new_graffiti_data>>
    /\ UNCHANGED <<pointVars, iterVars, genVars, funcVars>>

\* out_file.close(): the buffer is written to disk.
WriteEnd ==
    /\ pc = "write"
    /\ iterpos = Len(new_graffiti_data) - 1
    /\ out_csv' = Overwrite(out_csv, out_file.buf)
    /\ out_file' = ClosedFile
    /\ cell' = Ok("write")
    /\ pc' = "idle"
    /\ UNCHANGED <<defined, stdout, iterpos, csv_text, graffiti_data_raw, f, graffiti_data,
                   just_grafitti_data, filtered_values, filtered_dates,
                   new_graffiti_data>>
    /\ UNCHANGED <<pointVars, iterVars, genVars, funcVars>>

----------------------------------------------------------------------------
(* The kernel. *)

Restarted == [name |-> "restart", outcome |-> "ok", err |-> "", at |-> "", msg |-> ""]

\* No instance is bound to p1 or p2.
NoPoints == [n \in {"p1", "p2"} |-> [x |-> 0, y |-> 0]]

\* No instance has been constructed or moved.
NoTrack == [n \in {"p1", "p2"} |-> [origin |-> [x |-> 0, y |-> 0], dx |-> 0, dy |-> 0]]

NoIterator == [seq |-> <<>>, idx |-> 0]

\* A restarted kernel has an empty namespace; the files on disk stay.  A file
\* object left open may or may not write its buffer back when the old
\* interpreter exits.
Restart ==
    /\ pc = "idle"
    /\ defined' = {}
    /\ cell' = Restarted
    /\ stdout' = <<>>
    /\ iterpos' = 0
    /\ f' = "unbound"
    /\ graffiti_data_raw' = <<>>
    /\ graffiti_data' = <<>>
    /\ just_grafitti_data' = <<>>
    /\ filtered_values' = <<>>
    /\ filtered_dates' = <<>>
    /\ new_graffiti_data' = <<>>
    /\ out_file' = ClosedFile
    /\ \/ out_csv' = out_csv
       \/ /\ out_file.open
          /\ out_csv' = Overwrite(out_csv, out_file.buf)
    /\ points' = NoPoints
    /\ track' = NoTrack
    /\ L' = <<>>
    /\ it' = NoIterator
    /\ calls' = 0
    /\ returned' = <<>>
    /\ gens' = <<>>
    /\ yielded' = <<>>
    /\ total' = 0
    /\ rand_list' = <<>>
    /\ args' = <<>>
    /\ result' = <<>>
    /\ UNCHANGED <<pc, csv_text, add_seen>>

----------------------------------------------------------------------------
(* Input files of the CSV exercise. *)

\* Header rows: two labels, one label only, and a numeric second field.
Headers == { <<"D", ",", "R">>, <<"D">>, <<"H", ",", "9", "9">> }

\* Data rows: above, at and just above the threshold as a decimal, a second
\* field that is no number, no second field, and a third field.
RowTexts == { <<"J", ",", "1", "6">>,
              <<"F", ",", "1", "5">>,
              <<"A", ",", "1", "5", ".", "5">>,
              <<"J", ",", "x">>,
              <<"F">>,
              <<"M", ",", "2", "0", ",", "z">> }

RowSeqs == UNION { [1..n -> RowTexts] : n \in 0..MaxRows }

\* The lines joined by newlines, with or without a newline after the last.
RECURSIVE JoinLines(_, _)
JoinLines(lines, nl) ==
    IF lines = <<>> THEN <<>>
    ELSE IF Len(lines) = 1 THEN lines[1] \o (IF nl THEN <<NL>> ELSE <<>>)
    ELSE lines[1] \o <<NL>> \o JoinLines(Tail(lines), nl)

InputFiles ==
    {<<>>} \cup { JoinLines(<<h>> \o rows, nl) :
                    h \in Headers, rows \in RowSeqs, nl \in BOOLEAN }

----------------------------------------------------------------------------
(* Specifications. *)

Fresh ==
    /\ defined = {}
    /\ cell = NoCell
    /\ stdout = <<>>
    /\ pc = "idle"
    /\ iterpos = 0
    /\ out_csv = <<>>
    /\ f = "unbound"
    /\ graffiti_data_raw = <<>>
    /\ graffiti_data = <<>>
    /\ just_grafitti_data = <<>>
    /\ filtered_values = <<>>
    /\ filtered_dates = <<>>
    /\ new_graffiti_data = <<>>
    /\ out_file = ClosedFile
    /\ points = NoPoints
    /\ track = NoTrack
    /\ L = <<>>
    /\ it = NoIterator
    /\ calls = 0
    /\ returned = <<>>
    /\ gens = <<>>
    /\ yielded = <<>>
    /\ total = 0
    /\ rand_list = <<>>
    /\ args = <<>>
    /\ result = <<>>
    /\ add_seen = {}

\* The CSV exercise on every input file of the bounded set.
InitCsv == Fresh /\ csv_text \in InputFiles

NextCsv ==
    \/ ReadBegin \/ ReadStep \/ ReadEnd
    \/ FilterBegin \/ FilterStep \/ FilterEnd
    \/ WriteBegin \/ WriteStep \/ WriteEnd
    \/ Restart

SpecCsv == InitCsv /\ [][NextCsv]_vars

----------------------------------------------------------------------------
(* Undefined names and try/except. *)

\* A lookup that binds an unbound name to None and goes on to print it.
UndefinedNameCellBindsNone ==
    /\ pc = "idle"
    /\ stdout' = <<"None">>
    /\ cell' = Ok("undefined_name")
    /\ defined' = defined \cup {"iAmNotDefined"}
    /\ UNCHANGED <<pc, iterpos, csvVars, pointVars, iterVars, genVars, funcVars>>

\* print(iAmNotDefined): no cell binds the name, so the read raises and the
\* print is never reached.
UndefinedNameCell ==
    /\ pc = "idle"
    /\ stdout' = <<>>
    /\ cell' = IF "iAmNotDefined" \notin defined
               THEN NameError("undefined_name", defined, <<"iAmNotDefined">>)
               ELSE Ok("undefined_name")
    /\ UNCHANGED <<defined, pc, iterpos, csvVars, pointVars, iterVars, genVars, funcVars>>

\* The exception types an "except Exception" clause matches among those raised
\* here: all of them derive from Exception.
ExceptionTypes == {"NameError", "IndexError", "ValueError", "StopIteration"}

\* A handler that matches ValueError only.
HandlesValueErrorOnly(clause, err) == err = "ValueError"

\* Whether an except clause intercepts an error of type err.
Handles(clause, err) ==
    \/ clause = "except:"
    \/ clause = "except Exception as e:" /\ err \in ExceptionTypes

\* What the handler of the clause prints for the error e it intercepted;
\* str(e) is the error's message.
HandlerMessage(clause, e) ==
    IF clause = "except:" THEN "Caught an expection"
    ELSE "Caught an exception:" \o e.msg

\* try: print("test"); print(badvar)   <clause> print(...)
\* The output and outcome of the cell.
TryCell(name, clause) ==
    /\ pc = "idle"
    /\ IF "badvar" \in defined
       THEN /\ stdout' = <<"test", "badvar">>
            /\ cell' = Ok(name)
            /\ UNCHANGED defined
       ELSE LET e == NameError(name, defined, <<"badvar">>)
            IN  IF Handles(clause, e.err)
                THEN /\ stdout' = <<"test", HandlerMessage(clause, e)>>
                     /\ cell' = Ok(name)
                     /\ defined' = defined \ {"e"}
                ELSE /\ stdout' = <<"test">>
                     /\ cell' = e
                     /\ UNCHANGED defined
    /\ UNCHANGED <<pc, iterpos, csvVars, pointVars, iterVars, genVars, funcVars>>

\* The cell with a bare except clause.
TryBareCell == TryCell("try_bare", "except:")

\* The cell with "except Exception as e".
TryAsCell == TryCell("try_as_e", "except Exception as e:")

----------------------------------------------------------------------------
(* The Point class. *)

\* Point.__init__
Point(x, y) == [x |-> x, y |-> y]

\* A translate that keeps the coordinates where every instance sees them.
translateShared(pts, self, dx, dy) ==
    [n \in DOMAIN pts |-> [x |-> pts[n].x + dx, y |-> pts[n].y + dy]]

\* A translate that assigns the deltas to the coordinates.
translateAssigns(pts, self, dx, dy) == [pts EXCEPT ![self] = [x |-> dx, y |-> dy]]

\* Point.translate on the instance bound to self, given all instances.
translate(pts, self, dx, dy) ==
    [pts EXCEPT ![self] = [x |-> @.x + dx, y |-> @.y + dy]]

FracText == <<"000000", "250000", "500000", "750000">>

Abs(n) == IF n < 0 THEN 0 - n ELSE n

\* "%f" of a number of quarters
FormatF(q) ==
    (IF q < 0 THEN "-" ELSE "") \o ToString(Abs(q) \div 4) \o "."
        \o FracText[(Abs(q) % 4) + 1]

\* Point.__str__
PointStr(p) == "Point at [" \o FormatF(p.x) \o ", " \o FormatF(p.y) \o "]"

InRange(p) == {p.x, p.y} \subseteq (0 - MaxDelta)..MaxCoord

\* The history of an instance just constructed at p.
Constructed(p) == [origin |-> p, dx |-> 0, dy |-> 0]

\* The history after translate(dx, dy) was called on the instance self.
Moved(tr, self, dx, dy) == [tr EXCEPT ![self].dx = @ + dx, ![self].dy = @ + dy]

\* The cell that defines the class.
PointClassCell ==
    /\ pc = "idle"
    /\ defined' = defined \cup {"Point"}
    /\ cell' = Ok("class_Point")
    /\ stdout' = <<>>
    /\ UNCHANGED <<pc, iterpos, csvVars, pointVars, iterVars, genVars, funcVars>>

\* p1 = Point(0, 0); print(p1)
NewPointCell ==
    /\ pc = "idle"
    /\ IF "Point" \notin defined
       THEN /\ cell' = NameError("new_point", defined, <<"Point">>)
            /\ stdout' = <<>>
            /\ UNCHANGED <<defined, points, track>>
       ELSE /\ points' = [points EXCEPT !["p1"] = Point(0, 0)]
            /\ track' = [track EXCEPT !["p1"] = Constructed(Point(0, 0))]
            /\ defined' = defined \cup {"p1"}
            /\ stdout' = <<PointStr(Point(0, 0))>>
            /\ cell' = Ok("new_point")
    /\ UNCHANGED <<pc, iterpos, csvVars, iterVars, genVars, funcVars>>

\* p2 = Point(1, 1); p1.translate(0.25, 1.5); print(p1); print(p2)
\* In quarters: Point(4, 4) and translate(1, 6).
TranslateCell ==
    /\ pc = "idle"
    /\ IF "Point" \notin defined
       THEN /\ cell' = NameError("translate", defined, <<"Point">>)
            /\ stdout' = <<>>
            /\ UNCHANGED <<defined, points, track>>
       ELSE LET made == [points EXCEPT !["p2"] = Point(4, 4)]
                noted == [track EXCEPT !["p2"] = Constructed(Point(4, 4))]
            IN  /\ defined' = defined \cup {"p2"}
                /\ IF "p1" \notin defined
                   THEN /\ cell' = NameError("translate", defined, <<"p1">>)
                        /\ stdout' = <<>>
                        /\ points' = made
                        /\ track' = noted
                   ELSE LET moved == translate(made, "p1", 1, 6)
                        IN  /\ InRange(moved["p1"])
                            /\ points' = moved
                            /\ track' = Moved(noted, "p1", 1, 6)
                            /\ stdout' = <<PointStr(moved["p1"]), PointStr(moved["p2"])>>
                            /\ cell' = Ok("translate")
    /\ UNCHANGED <<pc, iterpos, csvVars, iterVars, genVars, funcVars>>

\* A cell that calls translate(dx, dy) on the instance bound to name self.
TranslateCall(self, dx, dy) ==
    /\ pc = "idle"
    /\ self \in defined
    /\ InRange(translate(points, self, dx, dy)[self])
    /\ points' = translate(points, self, dx, dy)
    /\ track' = Moved(track, self, dx, dy)
    /\ cell' = [Ok("translate_call") EXCEPT !.at = self]
    /\ stdout' = <<>>
    /\ UNCHANGED <<defined, pc, iterpos, csvVars, iterVars, genVars, funcVars>>

Deltas == (0 - MaxDelta)..MaxDelta

AnyTranslateCall ==
    \E self \in {"p1", "p2"}, dx \in Deltas, dy \in Deltas : TranslateCall(self, dx, dy)

\* A cell that calls translate(dx, dy) and then translate(-dx, -dy) on the
\* instance bound to name self.
TranslateBackCall(self, dx, dy) ==
    /\ pc = "idle"
    /\ self \in defined
    /\ LET there == translate(points, self, dx, dy)
           back == translate(there, self, 0 - dx, 0 - dy)
       IN  /\ InRange(there[self])
           /\ InRange(back[self])
           /\ points' = back
    /\ track' = Moved(Moved(track, self, dx, dy), self, 0 - dx, 0 - dy)
    /\ cell' = [Ok("translate_back") EXCEPT !.at = self]
    /\ stdout' = <<>>
    /\ UNCHANGED <<defined, pc, iterpos, csvVars, iterVars, genVars, funcVars>>

\* Such a cell for every delta that moves the point.
AnyTranslateBack ==
    \E self \in {"p1", "p2"}, dx \in Deltas, dy \in Deltas :
        /\ dx # 0 \/ dy # 0
        /\ TranslateBackCall(self, dx, dy)

\* The cells on names, exceptions and classes, in a kernel with no input file.
InitPoint == Fresh /\ csv_text = <<>>

NextPoint ==
    \/ UndefinedNameCell
    \/ TryBareCell
    \/ TryAsCell
    \/ PointClassCell
    \/ NewPointCell
    \/ TranslateCell
    \/ AnyTranslateCall
    \/ Restart

SpecPoint == InitPoint /\ [][NextPoint]_vars

InitTranslate == Fresh /\ csv_text = <<>>

\* The cells on the Point class, with translate calls of any delta of the
\* bounded set on either instance, in any order.
NextTranslate ==
    \/ PointClassCell
    \/ NewPointCell
    \/ TranslateCell
    \/ AnyTranslateCall
    \/ AnyTranslateBack
    \/ Restart

SpecTranslate == InitTranslate /\ [][NextTranslate]_vars

----------------------------------------------------------------------------
(* Iterators. *)

\* iter(l): a list iterator at the start of l.
iter(l) == [seq |-> l, idx |-> 0]

\* An iterator that starts over when it reaches the end.
nextCycling(itr) ==
    IF itr.seq = <<>> THEN [raised |-> TRUE, value |-> 0, it |-> itr]
    ELSE [raised |-> FALSE, value |-> itr.seq[(itr.idx % Len(itr.seq)) + 1],
          it |-> [itr EXCEPT !.idx = @ + 1]]

\* next(itr) / itr.__next__(): the next element and the advanced iterator, or
\* StopIteration once the list is used up.
next(itr) ==
    IF itr.idx < Len(itr.seq)
    THEN [raised |-> FALSE, value |-> itr.seq[itr.idx + 1],
          it |-> [itr EXCEPT !.idx = @ + 1]]
    ELSE [raised |-> TRUE, value |-> 0, it |-> itr]

Lists == UNION { [1..n -> 1..MaxLen] : n \in 0..MaxLen }

StopIteration(name) == Raised(name, "StopIteration", "next(it)", "")

\* L = l; it = iter(L); it       (the notebook's l is [1, 2, 3])
IterCell(l) ==
    /\ pc = "idle"
    /\ L' = l
    /\ it' = iter(l)
    /\ calls' = 0
    /\ returned' = <<>>
    /\ defined' = defined \cup {"L", "it"}
    /\ cell' = Ok("iter")
    /\ stdout' = <<>>
    /\ UNCHANGED <<pc, iterpos, csvVars, pointVars, genVars, funcVars>>

\* print(next(it)), the source of two cells of the notebook.
NextCell(name) ==
    /\ pc = "idle"
    /\ IF "it" \notin defined
       THEN /\ cell' = NameError(name, defined, <<"it">>)
            /\ stdout' = <<>>
            /\ UNCHANGED <<it, calls, returned>>
       ELSE LET r == next(it)
            IN  /\ calls < Len(L) + MaxExtra
                /\ it' = r.it
                /\ calls' = calls + 1
                /\ IF r.raised
                   THEN /\ cell' = StopIteration(name)
                        /\ stdout' = <<>>
                        /\ UNCHANGED returned
                   ELSE /\ cell' = Ok(name)
                        /\ stdout' = <<ToString(r.value)>>
                        /\ returned' = Append(returned, r.value)
    /\ UNCHANGED <<defined, pc, iterpos, L, csvVars, pointVars, genVars, funcVars>>

\* print(it.__next__()); print(next(it))
NextTwiceCell ==
    /\ pc = "idle"
    /\ IF "it" \notin defined
       THEN /\ cell' = NameError("next_twice", defined, <<"it">>)
            /\ stdout' = <<>>
            /\ UNCHANGED <<it, calls, returned>>
       ELSE LET r1 == next(it)
                r2 == next(r1.it)
            IN  /\ calls + 1 < Len(L) + MaxExtra
                /\ IF r1.raised
                   THEN /\ it' = r1.it
                        /\ calls' = calls + 1
                        /\ cell' = StopIteration("next_twice")
                        /\ stdout' = <<>>
                        /\ UNCHANGED returned
                   ELSE /\ it' = r2.it
                        /\ calls' = calls + 2
                        /\ IF r2.raised
                           THEN /\ cell' = StopIteration("next_twice")
                                /\ stdout' = <<ToString(r1.value)>>
                                /\ returned' = Append(returned, r1.value)
                           ELSE /\ cell' = Ok("next_twice")
                                /\ stdout' = <<ToString(r1.value), ToString(r2.value)>>
                                /\ returned' = returned \o <<r1.value, r2.value>>
    /\ UNCHANGED <<defined, pc, iterpos, L, csvVars, pointVars, genVars, funcVars>>

NextCells == {"next_once", "next_again"}

InitIter == Fresh /\ csv_text = <<>>

NextIter ==
    \/ \E l \in Lists : IterCell(l)
    \/ \E name \in NextCells : NextCell(name)
    \/ NextTwiceCell
    \/ Restart

SpecIter == InitIter /\ [][NextIter]_vars

----------------------------------------------------------------------------
(* Generators. *)

\* generate_ints(N): a generator object that has not started; pos is the
\* position of its range iterator and i its loop variable.
generate_ints(N) == [N |-> N, pos |-> 0, i |-> 0, state |-> "created"]

\* A resume that runs the function body from its start, as a call would.
resumeFromStart(g) ==
    IF 0 < g.N
    THEN [raised |-> FALSE, value |-> 0,
          gen |-> [g EXCEPT !.pos = 1, !.i = 0, !.state = "suspended"]]
    ELSE [raised |-> TRUE, value |-> 0, gen |-> [g EXCEPT !.state = "finished"]]

\* g.__next__(): run "for i in range(N): yield i" from where it was suspended
\* to the next yield, or to the end of the function (StopIteration).
resume(g) ==
    IF g.state # "finished" /\ g.pos < g.N
    THEN [raised |-> FALSE, value |-> g.pos,
          gen |-> [g EXCEPT !.pos = @ + 1, !.i = g.pos, !.state = "suspended"]]
    ELSE [raised |-> TRUE, value |-> 0, gen |-> [g EXCEPT !.state = "finished"]]

\* list(g): next() until StopIteration.  A generator of N values is resumed at
\* most N + 1 times; fuel bounds the recursion for one that never finishes.
RECURSIVE Drain(_, _)
Drain(g, fuel) ==
    LET r == resume(g)
    IN  IF r.raised \/ fuel = 0 THEN <<>> ELSE <<r.value>> \o Drain(r.gen, fuel - 1)

list(g) == Drain(g, g.N + 1)

\* The cell that defines generate_ints.
GenDefCell ==
    /\ pc = "idle"
    /\ defined' = defined \cup {"generate_ints"}
    /\ cell' = Ok("def_generate_ints")
    /\ stdout' = <<>>
    /\ UNCHANGED <<pc, iterpos, csvVars, pointVars, iterVars, genVars, funcVars>>

\* print(list(generate_ints(5))), then 7, then 8
GenListCell ==
    /\ pc = "idle"
    /\ IF "generate_ints" \notin defined
       THEN /\ cell' = NameError("gen_list", defined, <<"generate_ints">>)
            /\ stdout' = <<>>
       ELSE /\ cell' = Ok("gen_list")
            /\ stdout' = <<ReprInts(list(generate_ints(5))),
                           ReprInts(list(generate_ints(7))),
                           ReprInts(list(generate_ints(8)))>>
    /\ UNCHANGED <<defined, pc, iterpos, csvVars, pointVars, iterVars, genVars, funcVars>>

\* A cell that calls generate_ints(N) and keeps the generator object.
GenCall(N) ==
    /\ pc = "idle"
    /\ "generate_ints" \in defined
    /\ Len(gens) < MaxGens
    /\ gens' = Append(gens, generate_ints(N))
    /\ yielded' = Append(yielded, <<>>)
    /\ cell' = Ok("gen_call")
    /\ stdout' = <<>>
    /\ UNCHANGED <<defined, pc, iterpos, csvVars, pointVars, iterVars, funcVars>>

\* A cell that calls next() on the k-th generator object.
GenResume(k) ==
    /\ pc = "idle"
    /\ k \in 1..Len(gens)
    /\ LET r == resume(gens[k])
       IN  /\ gens' = [gens EXCEPT ![k] = r.gen]
           /\ IF r.raised
              THEN /\ cell' = Raised("gen_next", "StopIteration", ToString(k), "")
                   /\ stdout' = <<>>
                   /\ UNCHANGED yielded
              ELSE /\ cell' = [Ok("gen_next") EXCEPT !.at = ToString(k)]
                   /\ stdout' = <<ToString(r.value)>>
                   /\ yielded' = [yielded EXCEPT ![k] = Append(@, r.value)]
    /\ UNCHANGED <<defined, pc, iterpos, csvVars, pointVars, iterVars, funcVars>>

InitGen == Fresh /\ csv_text = <<>>

NextGen ==
    \/ GenDefCell
    \/ GenListCell
    \/ \E N \in 0..MaxN : GenCall(N)
    \/ \E k \in 1..MaxGens : GenResume(k)
    \/ Restart

SpecGen == InitGen /\ [][NextGen]_vars

----------------------------------------------------------------------------
(* Both notebooks, cell by cell as written, from a fresh kernel.  The two  *)
(* notebooks bind disjoint names, so one namespace holds either kernel.    *)

SampleFiles ==
    { JoinLines(<<<<"D", ",", "R">>, <<"J", ",", "1", "6">>, <<"F", ",", "1", "5">>,
                  <<"A", ",", "1", "5", ".", "5">>>>, TRUE),
      JoinLines(<<<<"D", ",", "R">>, <<"F", ",", "1", "5">>>>, TRUE) }

InitNotebook == Fresh /\ csv_text \in SampleFiles

NextNotebook ==
    \/ ReadBegin \/ ReadStep \/ ReadEnd
    \/ FilterBegin \/ FilterStep \/ FilterEnd
    \/ WriteBegin \/ WriteStep \/ WriteEnd
    \/ UndefinedNameCell
    \/ TryBareCell
    \/ TryAsCell
    \/ PointClassCell
    \/ NewPointCell
    \/ TranslateCell
    \/ IterCell(<<1, 2, 3>>)
    \/ NextTwiceCell
    \/ \E name \in NextCells : NextCell(name)
    \/ GenDefCell
    \/ GenListCell
    \/ Restart

SpecNotebook == InitNotebook /\ [][NextNotebook]_vars

----------------------------------------------------------------------------
(* The input and output files as a reader of the CSV format sees them.     *)

\* The lines of a text file without their newlines.
TextLines(text) == [k \in 1..Len(FileLines(text)) |-> RStrip(FileLines(text)[k], NL)]

\* The data rows of the input file: every line after the first.
DataLines == Rest(TextLines(csv_text))

Fields(line) == Split(line, COMMA)

HasNumber(line) == Len(Fields(line)) >= 2 /\ float(Fields(line)[2]).ok

\* The second field is a number strictly greater than 15.
Above15(line) ==
    /\ HasNumber(line)
    /\ float(Fields(line)[2]).num > 15 * float(Fields(line)[2]).den

FirstTwo(line) == <<Fields(line)[1], Fields(line)[2]>>

\* The write cell has run to its end, normally or with an error of its own.
WriteCellRan == pc = "idle" /\ cell.name = "write" /\ cell.err # "NameError"

\* The data lines out.csv holds, on disk or still in the buffer of out_file.
WrittenDataLines ==
    { TextLines(out_csv)[k] : k \in 2..Len(TextLines(out_csv)) }
      \cup { TextLines(out_file.buf)[k] : k \in 2..Len(TextLines(out_file.buf)) }

WrittenLines ==
    { TextLines(out_csv)[k] : k \in 1..Len(TextLines(out_csv)) }
      \cup { TextLines(out_file.buf)[k] : k \in 1..Len(TextLines(out_file.buf)) }

----------------------------------------------------------------------------
(* Claims about the CSV exercise, checked under SpecCsv. *)

\* out.csv is the header line followed by one line per data row above 15, in
\* input order.
OutputIsFilteredInput ==
    LET out  == TextLines(out_csv)
        want == SelectSeq(DataLines, Above15)
    IN  /\ Len(out) = Len(want) + 1
        /\ out[1] = RStrip(HeaderLine, NL)
        /\ \A k \in 1..Len(want) : Fields(out[k + 1]) = FirstTwo(want[k])

\* C1: for every input whose data rows all have a numeric second field, once
\* the read, filter and write cells have run in that order, out.csv is the
\* fixed header line followed by exactly one line per data row whose second
\* field is strictly greater than 15, in input order.
C1_FilteredOutput ==
    (/\ WriteCellRan
     /\ Len(TextLines(csv_text)) >= 1
     /\ \A k \in 1..Len(DataLines) : HasNumber(DataLines[k]))
        => OutputIsFilteredInput

\* The same when at least one data row is above 15: the case the write cell
\* handles.
C1_FilteredOutputWhenSomeRowMatches ==
    (/\ WriteCellRan
     /\ \A k \in 1..Len(DataLines) : HasNumber(DataLines[k])
     /\ \E k \in 1..Len(DataLines) : Above15(DataLines[k]))
        => (cell = Ok("write") /\ OutputIsFilteredInput)

\* C2, as claimed: every data line written to out.csv is equal, as text, to
\* some data row of the input file.
C2_OutputLinesAreInputLines ==
    \A l \in WrittenDataLines : \E k \in 1..Len(DataLines) : l = DataLines[k]

\* C2, amended: every data line written to out.csv is the first two fields of
\* some data row of the input file, as the unchanged text of those fields,
\* joined by a comma; for a data row of exactly two fields that is the row.
C2_OutputLinesAreInputFields ==
    \A l \in WrittenDataLines : \E k \in 1..Len(DataLines) :
        LET r == Fields(DataLines[k])
        IN  /\ Len(r) >= 2
            /\ l = r[1] \o <<COMMA>> \o r[2]
            /\ Len(r) = 2 => l = DataLines[k]

\* The write cell has completed and wrote two data lines, one of them from an
\* input row with a third field.
C2_Witness ==
    /\ cell = Ok("write")
    /\ Len(TextLines(out_csv)) = 3
    /\ \E k \in 1..Len(DataLines) :
         /\ Len(Fields(DataLines[k])) = 3
         /\ Fields(TextLines(out_csv)[2]) = FirstTwo(DataLines[k])

\* C3: every line of out.csv, the header line included, has exactly two
\* comma-separated fields.
C3_TwoFieldsPerLine == \A l \in WrittenLines : Len(Fields(l)) = 2

\* The write cell has completed with a header and a data line on disk.
C3_Witness ==
    /\ cell = Ok("write")
    /\ Len(TextLines(out_csv)) >= 2
    /\ out_file = ClosedFile

\* The first data row without a numeric second field, 0 if there is none.
FirstBadRow ==
    IF \E k \in 1..Len(DataLines) : ~HasNumber(DataLines[k])
    THEN CHOOSE k \in 1..Len(DataLines) :
            /\ ~HasNumber(DataLines[k])
            /\ \A j \in 1..(k - 1) : HasNumber(DataLines[j])
    ELSE 0

RowErrors == {"row[1]", "float(row[1])"}

\* C4: when a data row has no second field, or one that is no number, the
\* filter cell ends in an error raised at that row (IndexError or ValueError),
\* having kept exactly the rows above 15 that precede it and having fetched no
\* row after it; with no such row the loop raises nothing.
C4_FilterStopsAtBadRow ==
    (pc = "idle" /\ cell.name = "filter" /\ cell.err # "NameError") =>
        IF FirstBadRow = 0 THEN cell.at \notin RowErrors
        ELSE LET before == SelectSeq(SubSeq(DataLines, 1, FirstBadRow - 1), Above15)
             IN  /\ cell.outcome = "error"
                 /\ cell.at \in RowErrors
                 /\ cell.err = IF Len(Fields(DataLines[FirstBadRow])) < 2
                               THEN "IndexError" ELSE "ValueError"
                 /\ iterpos = FirstBadRow
                 /\ Len(filtered_dates) = Len(before)
                 /\ Len(filtered_values) = Len(before)
                 /\ \A k \in 1..Len(before) :
                      <<filtered_dates[k], filtered_values[k]>> = FirstTwo(before[k])

\* The filter cell ended with ValueError at a row that has a row after it.
C4_Witness ==
    /\ pc = "idle"
    /\ cell.name = "filter"
    /\ cell.err = "ValueError"
    /\ iterpos < Len(just_grafitti_data)

----------------------------------------------------------------------------
(* Claims about names, exceptions and Point, checked under SpecPoint. *)

\* C6: each try/except cell prints "test" first, the NameError raised by
\* reading badvar is intercepted, the handler prints its message exactly once
\* (the second cell's includes the error's description) and the cell ends
\* normally; the handler's message appears only when the try body raised.
C6_TryCellsCatch ==
    /\ cell.name = "try_bare" =>
         /\ cell = Ok("try_bare")
         /\ stdout = <<"test", "Caught an expection">>
    /\ cell.name = "try_as_e" =>
         /\ cell = Ok("try_as_e")
         /\ stdout = <<"test", "Caught an exception:name 'badvar' is not defined">>
    /\ (cell.name \in {"try_bare", "try_as_e"} /\ Len(stdout) = 2
          /\ stdout[2] # "badvar") => "badvar" \notin defined

\* The second try/except cell has run in a kernel that holds a Point.
C6_Witness ==
    /\ cell = Ok("try_as_e")
    /\ Len(stdout) = 2
    /\ "p1" \in defined

\* C7: reading a name that was never assigned raises a NameError that names
\* the variable and ends the cell in an error state; nothing is printed and no
\* interpreter variable is created or changed.
C7_UndefinedNameRaises ==
    [][cell'.name = "undefined_name" =>
         /\ cell'.outcome = "error"
         /\ cell'.err = "NameError"
         /\ cell'.msg = "name 'iAmNotDefined' is not defined"
         /\ stdout' = <<>>
         /\ UNCHANGED <<defined, csvVars, pointVars, iterVars, genVars, funcVars>>]_vars

\* The cell has run in a kernel that holds a translated Point.
C7_Witness ==
    /\ cell.name = "undefined_name"
    /\ cell.err = "NameError"
    /\ "p1" \in defined
    /\ points["p1"] = Point(1, 6)

\* C8: a translate call on one instance leaves the coordinates of the other
\* instance and every other variable of the interpreter unchanged; in the
\* notebook's cell p2 keeps the coordinates it was constructed with and p1
\* moves by the arguments.
C8_TranslateChangesOnlySelf ==
    [][/\ \A self \in {"p1", "p2"} :
            (cell'.name = "translate_call" /\ cell'.at = self) =>
                /\ \A n \in {"p1", "p2"} \ {self} : points'[n] = points[n]
                /\ UNCHANGED <<defined, csvVars, iterVars, genVars, funcVars>>
       /\ (cell' = Ok("translate") /\ cell' # cell) =>
                /\ points'["p2"] = Point(4, 4)
                /\ points'["p1"] = Point(points["p1"].x + 1, points["p1"].y + 6)
                /\ UNCHANGED <<csvVars, iterVars, genVars, funcVars>>]_vars

\* translate was called on p2 while p1 holds other coordinates.
C8_Witness ==
    /\ cell.name = "translate_call"
    /\ cell.at = "p2"
    /\ {"p1", "p2"} \subseteq defined
    /\ points["p2"] = Point(5, 3)
    /\ points["p1"] = Point(1, 6)

----------------------------------------------------------------------------
(* Claims about iterators and generators. *)

\* C9: the iterator made by iter(L) returns the elements of L in order, one
\* per next() call, across cells; from call number Len(L) + 1 on every call
\* raises StopIteration and returns no element.  Checked under SpecIter.
C9_IteratorReturnsListInOrder ==
    "it" \in defined =>
        /\ returned = SubSeq(L, 1, Min(calls, Len(L)))
        /\ cell.name \in NextCells \cup {"next_twice"} =>
             /\ cell.err = "StopIteration" <=> calls > Len(L)
             /\ cell.outcome = "ok" <=> calls <= Len(L)
             /\ Len(stdout) <= Len(returned)
             /\ \A k \in 1..Len(stdout) :
                  stdout[k] = ToString(returned[Len(returned) - Len(stdout) + k])

\* Every element of a three-element list was returned over several cells and
\* two further calls raised StopIteration.
C9_Witness ==
    /\ Len(L) = 3
    /\ returned = L
    /\ calls = Len(L) + 2
    /\ cell.name = "next_again"
    /\ cell.err = "StopIteration"

\* C10: a generator made by generate_ints(N) yields 0, 1, ..., N-1 in
\* increasing order, one value per resume, then finishes; a resume continues
\* after the value yielded last, whatever other generators did in between.
\* Checked under SpecGen.
C10_GeneratorYieldsRange ==
    [][/\ \A k \in 1..Len(gens') :
            /\ yielded'[k] = [j \in 1..Len(yielded'[k]) |-> j - 1]
            /\ Len(yielded'[k]) <= gens'[k].N
            /\ gens'[k].state = "finished" => Len(yielded'[k]) = gens'[k].N
       /\ \A k \in 1..Len(gens) :
            (cell'.name = "gen_next" /\ cell'.at = ToString(k)) =>
                IF cell'.outcome = "ok"
                THEN yielded'[k] = Append(yielded[k], Len(yielded[k]))
                ELSE /\ yielded'[k] = yielded[k]
                     /\ Len(yielded[k]) = gens[k].N
                     /\ gens'[k].state = "finished"
       /\ cell'.name = "gen_list" =>
            \/ cell'.err = "NameError"
            \/ stdout' = <<"[0, 1, 2, 3, 4]", "[0, 1, 2, 3, 4, 5, 6]",
                           "[0, 1, 2, 3, 4, 5, 6, 7]">>]_vars

\* Two generators resumed in turn: one has finished after three values, the
\* other is suspended after two.
C10_Witness ==
    /\ Len(gens) = 2
    /\ gens[1].state = "finished"
    /\ yielded[1] = <<0, 1, 2>>
    /\ gens[2].state = "suspended"
    /\ yielded[2] = <<0, 1>>

----------------------------------------------------------------------------
(* Claims about cells run in a fresh kernel, checked under SpecNotebook. *)

\* For each cell that reads a name another cell binds, the first such name.
ForeignName ==
    [c \in {"filter", "write", "new_point", "translate", "next_twice",
            "next_once", "next_again", "gen_list"} |->
        CASE c = "filter" -> "graffiti_data"
          [] c = "write" -> "filtered_dates"
          [] c \in {"new_point", "translate"} -> "Point"
          [] c \in {"next_twice", "next_once", "next_again"} -> "it"
          [] c = "gen_list" -> "generate_ints"]

\* C5, as claimed: run in a fresh interpreter, the filter, write, translate
\* and next() cells complete without a name that only another cell defines.
C5_EveryCellStandalone ==
    [][(/\ defined = {}
        /\ pc = "idle"
        /\ cell'.name \in {"filter", "write", "translate", "next_twice",
                           "next_once", "next_again"})
          => cell'.err # "NameError"]_vars

\* C5, amended: run in a fresh interpreter, a cell that reads a name another
\* cell binds ends with NameError for the first such name and binds nothing;
\* the cell on the undefined name raises NameError as it is written to; every
\* other cell runs without error, the read cell to its end.
C5_FreshKernelCells ==
    [][/\ (defined = {} /\ pc = "idle" /\ cell'.name \notin {"restart", "none"}) =>
            IF cell'.name \in DOMAIN ForeignName
            THEN /\ cell'.err = "NameError"
                 /\ cell'.at = ForeignName[cell'.name]
                 /\ defined' = {}
            ELSE IF cell'.name = "undefined_name"
            THEN cell'.err = "NameError" /\ cell'.at = "iAmNotDefined"
            ELSE cell'.outcome \in {"ok", "running"}
       /\ pc = "read" => cell'.outcome # "error"]_vars

\* The translate cell was run in a fresh kernel.
C5_Witness ==
    /\ defined = {}
    /\ cell.name = "translate"
    /\ cell.err = "NameError"
    /\ cell.at = "Point"

----------------------------------------------------------------------------
(* Functional programming notebook: pure functions, the loop and reduce.   *)

\* range(n) runs over 0 .. n-1 with n <= MaxRange.
MaxRange == 5

\* The values the cells pass to add: the notebook's 1 and 3.
AddArgs == {1, 3}

\* An add that reads the global total as well as its parameters.
addPlusTotal(x, y) == x + y + total

\* def add(x, y): return x + y
add(x, y) == x + y

\* def add_one_to_sum(y, z): x = 1; return x + y + z       (x is a local)
add_one_to_sum(y, z) == LET x == 1 IN x + y + z

\* range(n) as the sequence of the values it yields.
Range(n) == [k \in 1..n |-> k - 1]

\* The cell that defines add.
AddDefCell ==
    /\ pc = "idle"
    /\ defined' = defined \cup {"add"}
    /\ cell' = Ok("def_add")
    /\ stdout' = <<>>
    /\ UNCHANGED <<pc, iterpos, csvVars, pointVars, iterVars, genVars, funcVars>>

\* A cell that prints add(x, y).
AddCall(x, y) ==
    /\ pc = "idle"
    /\ IF "add" \notin defined
       THEN /\ cell' = NameError("add_call", defined, <<"add">>)
            /\ stdout' = <<>>
            /\ UNCHANGED <<args, result, add_seen>>
       ELSE /\ cell' = Ok("add_call")
            /\ stdout' = <<ToString(add(x, y))>>
            /\ args' = <<x, y>>
            /\ result' = <<add(x, y)>>
            /\ add_seen' = add_seen \cup {<<x, y, add(x, y)>>}
    /\ UNCHANGED <<defined, pc, iterpos, total, rand_list, csvVars, pointVars,
                   iterVars, genVars>>

\* print(add(1,3)) three times
AddCell ==
    /\ pc = "idle"
    /\ IF "add" \notin defined
       THEN /\ cell' = NameError("add_thrice", defined, <<"add">>)
            /\ stdout' = <<>>
            /\ UNCHANGED <<args, result, add_seen>>
       ELSE /\ cell' = Ok("add_thrice")
            /\ stdout' = <<ToString(add(1, 3)), ToString(add(1, 3)),
                           ToString(add(1, 3))>>
            /\ args' = <<1, 3>>
            /\ result' = <<add(1, 3), add(1, 3), add(1, 3)>>
            /\ add_seen' = add_seen \cup {<<1, 3, add(1, 3)>>}
    /\ UNCHANGED <<defined, pc, iterpos, total, rand_list, csvVars, pointVars,
                   iterVars, genVars>>

\* The cell that defines add_one_to_sum and prints add_one_to_sum(10,5).
AddOneToSumCell ==
    /\ pc = "idle"
    /\ defined' = defined \cup {"add_one_to_sum"}
    /\ cell' = Ok("add_one_to_sum")
    /\ stdout' = <<ToString(add_one_to_sum(10, 5))>>
    /\ args' = <<10, 5>>
    /\ result' = <<add_one_to_sum(10, 5)>>
    /\ UNCHANGED <<pc, iterpos, total, rand_list, add_seen, csvVars, pointVars,
                   iterVars, genVars>>

\* total = 0, and the for statement over range(n) starts (the notebook's n is 10).
LoopBegin(n) ==
    /\ pc = "idle"
    /\ pc' = "loop"
    /\ cell' = Running("loop")
    /\ stdout' = <<>>
    /\ total' = 0
    /\ defined' = defined \cup {"total"}
    /\ iterpos' = 0
    /\ args' = <<n>>
    /\ result' = <<>>
    /\ UNCHANGED <<rand_list, add_seen, csvVars, pointVars, iterVars, genVars>>

\* A loop body that assigns num to total.
LoopBodyAssigns(t, num) == num

\* total += num
LoopBody(t, num) == t + num

\* One iteration: num takes the next value of range(n).
LoopStep ==
    /\ pc = "loop"
    /\ iterpos < Len(Range(args[1]))
    /\ LET num == Range(args[1])[iterpos + 1]
       IN  total' = LoopBody(total, num)
    /\ iterpos' = iterpos + 1
    /\ defined' = defined \cup {"num"}
    /\ UNCHANGED <<cell, stdout, pc, rand_list, args, result, add_seen, csvVars,
                   pointVars, iterVars, genVars>>

\* range(n) is used up: print(total)
LoopEnd ==
    /\ pc = "loop"
    /\ iterpos = Len(Range(args[1]))
    /\ pc' = "idle"
    /\ cell' = Ok("loop")
    /\ stdout' = <<ToString(total)>>
    /\ result' = <<total>>
    /\ UNCHANGED <<defined, iterpos, total, rand_list, args, add_seen, csvVars,
                   pointVars, iterVars, genVars>>

\* lambda x, y: x + y
lambda(x, y) == x + y

\* reduce's loop over the rest of the iterable.
RECURSIVE ReduceFrom(_, _)
ReduceFrom(value, rest) ==
    IF rest = <<>> THEN value
    ELSE ReduceFrom(lambda(value, Head(rest)), Tail(rest))

\* A reduce that starts from 0 when the iterable is empty.
reduceFromZero(seq) == [raised |-> FALSE, value |-> ReduceFrom(0, seq)]

\* functools.reduce(lambda, seq) without an initial value: the first element
\* starts the accumulation, and an empty iterable raises TypeError.
reduce(seq) ==
    IF seq = <<>> THEN [raised |-> TRUE, value |-> 0]
    ELSE [raised |-> FALSE, value |-> ReduceFrom(Head(seq), Tail(seq))]

\* from functools import reduce; total = reduce(lambda x, y: x + y,range(n));
\* print(total)                                     (the notebook's n is 10)
ReduceCell(n) ==
    /\ pc = "idle"
    /\ args' = <<n>>
    /\ LET r == reduce(Range(n))
       IN  IF r.raised
           THEN /\ cell' = Raised("reduce", "TypeError", "reduce", "")
                /\ defined' = defined \cup {"reduce"}
                /\ stdout' = <<>>
                /\ result' = <<>>
                /\ UNCHANGED total
           ELSE /\ cell' = Ok("reduce")
                /\ defined' = defined \cup {"reduce", "total"}
                /\ total' = r.value
                /\ stdout' = <<ToString(r.value)>>
                /\ result' = <<r.value>>
    /\ UNCHANGED <<pc, iterpos, rand_list, add_seen, csvVars, pointVars,
                   iterVars, genVars>>

InitAdd == Fresh /\ csv_text = <<>>

\* The cells on add, with the cells that assign the global total in between.
NextAdd ==
    \/ AddDefCell
    \/ AddCell
    \/ \E x \in AddArgs, y \in AddArgs : AddCall(x, y)
    \/ AddOneToSumCell
    \/ \E n \in 0..MaxRange : LoopBegin(n)
    \/ LoopStep
    \/ LoopEnd
    \/ Restart

SpecAdd == InitAdd /\ [][NextAdd]_vars

InitFold == Fresh /\ csv_text = <<>>

\* The loop and the reduce over range(n), for every n of the bounded set.
NextFold ==
    \/ \E n \in 0..MaxRange : LoopBegin(n)
    \/ LoopStep
    \/ LoopEnd
    \/ \E n \in 0..MaxRange : ReduceCell(n)
    \/ Restart

SpecFold == InitFold /\ [][NextFold]_vars

----------------------------------------------------------------------------
(* Claims on the pure function, the loop and reduce. *)

\* C11: add is pure.  Every call of add returns what every earlier call
\* with the same arguments returned, whatever cells ran in between, and the
\* cell that calls it changes no variable of the namespace or of the files.
C11_AddIsPure ==
    [][(cell'.name \in {"add_call", "add_thrice"} /\ cell'.outcome = "ok") =>
         /\ \A k \in 1..Len(result') : \A a \in add_seen :
                (a[1] = args'[1] /\ a[2] = args'[2]) => result'[k] = a[3]
         /\ \A k \in 1..Len(result') : result'[k] = result'[1]
         /\ \A a \in add_seen', b \in add_seen' :
                (a[1] = b[1] /\ a[2] = b[2]) => a[3] = b[3]
         /\ UNCHANGED <<defined, pc, iterpos, total, rand_list, csvVars,
                        pointVars, iterVars, genVars>>]_vars

\* add(1, 3) and add(3, 1) were called, a loop cell assigned total in between
\* two of the calls, and the last call returned 4 again.
C11_Witness ==
    /\ cell = Ok("add_call")
    /\ args = <<1, 3>>
    /\ result = <<4>>
    /\ total > 0
    /\ {<<1, 3, 4>>, <<3, 1, 4>>} \subseteq add_seen

\* C12, as claimed: for every n >= 0 the reduce cell run after the loop cell
\* over the same range(n) ends with the total the loop left.
C12_ReduceEqualsLoop ==
    [][(cell = Ok("loop") /\ cell'.name = "reduce" /\ args' = args) =>
         (cell'.outcome = "ok" /\ total' = total)]_vars

\* C12, amended: for every n >= 1 the reduce cell run after the loop cell over
\* the same range(n) ends with the total the loop left and prints what the
\* loop printed; for n = 0 the loop leaves 0 and reduce raises TypeError,
\* assigns nothing and prints nothing.
C12_ReduceEqualsLoopFromOne ==
    [][(cell = Ok("loop") /\ cell'.name = "reduce" /\ args' = args) =>
         IF args[1] >= 1
         THEN cell'.outcome = "ok" /\ total' = total /\ stdout' = stdout
         ELSE /\ total = 0
              /\ cell'.err = "TypeError"
              /\ total' = total
              /\ stdout' = <<>>]_vars

\* The reduce cell has run over a range of three or more values after a loop
\* cell that bound num, and total is the sum of the range.
C12_Witness ==
    /\ cell = Ok("reduce")
    /\ "num" \in defined
    /\ args[1] >= 3
    /\ total = (args[1] * (args[1] - 1)) \div 2
    /\ stdout = <<ToString(total)>>

----------------------------------------------------------------------------
(* Functional programming notebook: map, filter, enumerate, zip, sorted.   *)

\* random.sample draws from range(MaxSample).
MaxSample == 6

LowerCase == <<"a", "b", "c", "d", "e", "f", "g", "h", "i", "j", "k", "l", "m",
               "n", "o", "p", "q", "r", "s", "t", "u", "v", "w", "x", "y", "z">>

UpperCase == <<"A", "B", "C", "D", "E", "F", "G", "H", "I", "J", "K", "L", "M",
               "N", "O", "P", "Q", "R", "S", "T", "U", "V", "W", "X", "Y", "Z">>

\* str.upper() on one character: a lower-case letter becomes its capital,
\* every other character stays.
UpperChar(c) ==
    IF \E k \in 1..Len(LowerCase) : LowerCase[k] = c
    THEN UpperCase[CHOOSE k \in 1..Len(LowerCase) : LowerCase[k] = c]
    ELSE c

\* An upper that capitalises the first character only.
upperFirst(s) == [k \in 1..Len(s) |-> IF k = 1 THEN UpperChar(s[k]) ELSE s[k]]

\* def upper(s): return s.upper()
upper(s) == [k \in 1..Len(s) |-> UpperChar(s[k])]

\* A predicate that holds of the odd numbers.
is_odd(x) == (x % 2) = 1

\* def is_even(x): return (x % 2) == 0
is_even(x) == (x % 2) = 0

\* The strings the cells put into their lists.
Words == { <<"a", "b">>, <<"B", "1">> }

\* Lists of up to MaxLen of these strings (the notebook's are
\* ['sentence', 'fragment'] and ['subject', 'verb', 'object']).
WordLists == UNION { [1..n -> Words] : n \in 0..MaxLen }

\* The tuple (1, 2, ..., n).
IntsTo(n) == [k \in 1..n |-> k]

\* repr() of a list of strings without quotes or escapes
ReprStrs(ws) == ReprList([k \in 1..Len(ws) |-> "'" \o Str(ws[k]) \o "'"])

\* list(map(upper, itr)): map takes the elements of itr by next() until
\* StopIteration and yields upper of each.
RECURSIVE MapUpper(_)
MapUpper(itr) ==
    LET r == next(itr)
    IN  IF r.raised THEN <<>> ELSE <<upper(r.value)>> \o MapUpper(r.it)

\* [upper(s) for s in l]: the comprehension appends upper(s) for each s of l.
RECURSIVE UpperComprehension(_, _)
UpperComprehension(l, acc) ==
    IF l = <<>> THEN acc
    ELSE UpperComprehension(Tail(l), Append(acc, upper(Head(l))))

\* def upper ...; print(list(map(upper, l))); print([upper(s) for s in l])
MapCell(l) ==
    /\ pc = "idle"
    /\ defined' = defined \cup {"upper"}
    /\ cell' = Ok("map")
    /\ args' = <<l>>
    /\ result' = <<MapUpper(iter(l)), UpperComprehension(l, <<>>)>>
    /\ stdout' = <<ReprStrs(MapUpper(iter(l))),
                   ReprStrs(UpperComprehension(l, <<>>))>>
    /\ UNCHANGED <<pc, iterpos, total, rand_list, add_seen, csvVars, pointVars,
                   iterVars, genVars>>

\* list(filter(is_even, itr)): filter takes the elements of itr by next()
\* until StopIteration and yields those the predicate holds of.
RECURSIVE FilterIsEven(_)
FilterIsEven(itr) ==
    LET r == next(itr)
    IN  IF r.raised THEN <<>>
        ELSE (IF is_even(r.value) THEN <<r.value>> ELSE <<>>) \o FilterIsEven(r.it)

\* list(x for x in l if is_even(x))
RECURSIVE EvenComprehension(_, _)
EvenComprehension(l, acc) ==
    IF l = <<>> THEN acc
    ELSE EvenComprehension(Tail(l),
                           IF is_even(Head(l)) THEN Append(acc, Head(l)) ELSE acc)

\* def is_even ...; print(list(filter(is_even, range(n))));
\* print(list(x for x in range(n) if is_even(x)))      (the notebook's n is 10)
FilterCell(n) ==
    /\ pc = "idle"
    /\ defined' = defined \cup {"is_even"}
    /\ cell' = Ok("filter_even")
    /\ args' = <<n>>
    /\ result' = <<FilterIsEven(iter(Range(n))), EvenComprehension(Range(n), <<>>)>>
    /\ stdout' = <<ReprInts(FilterIsEven(iter(Range(n)))),
                   ReprInts(EvenComprehension(Range(n), <<>>))>>
    /\ UNCHANGED <<pc, iterpos, total, rand_list, add_seen, csvVars, pointVars,
                   iterVars, genVars>>

\* An enumerate that counts from 1.
enumerateFromOne(itr) == [it |-> itr, count |-> 1]

\* enumerate(iterable, start=0): the iterator of the iterable and the count.
enumerate(itr) == [it |-> itr, count |-> 0]

\* The items of an enumerate object, taken until its iterator is used up:
\* each is the 2-tuple of the count and the element, and the count goes up.
RECURSIVE EnumerateItems(_)
EnumerateItems(e) ==
    LET r == next(e.it)
    IN  IF r.raised THEN <<>>
        ELSE <<<<e.count, r.value>>>> \o
             EnumerateItems([it |-> r.it, count |-> e.count + 1])

\* str() of the tuple (count, 'element')
ReprItem(item) == "(" \o ToString(item[1]) \o ", '" \o Str(item[2]) \o "')"

\* for item in enumerate(l): print(item)
EnumerateCell(l) ==
    /\ pc = "idle"
    /\ cell' = Ok("enumerate")
    /\ args' = <<l>>
    /\ LET items == EnumerateItems(enumerate(iter(l)))
       IN  /\ result' = items
           /\ stdout' = [k \in 1..Len(items) |-> ReprItem(items[k])]
    /\ defined' = IF l = <<>> THEN defined ELSE defined \cup {"item"}
    /\ UNCHANGED <<pc, iterpos, total, rand_list, add_seen, csvVars, pointVars,
                   iterVars, genVars>>

\* print(list(zip(a, b)))       (the notebook's are ['a', 'b', 'c'] or
\* ['a', 'b'] with (1, 2, 3))
ZipCell(a, b) ==
    /\ pc = "idle"
    /\ cell' = Ok("zip")
    /\ args' = <<a, b>>
    /\ LET pairs == Zip(a, b)
       IN  /\ result' = pairs
           /\ stdout' = <<ReprList([k \in 1..Len(pairs) |->
                             "('" \o Str(pairs[k][1]) \o "', " \o
                             ToString(pairs[k][2]) \o ")"])>>
    /\ UNCHANGED <<defined, pc, iterpos, total, rand_list, add_seen, csvVars,
                   pointVars, iterVars, genVars>>

InitBuiltins == Fresh /\ csv_text = <<>>

\* The cells on map, filter, enumerate and zip, on every input of the
\* bounded sets.
NextBuiltins ==
    \/ \E l \in WordLists : MapCell(l)
    \/ \E n \in 0..MaxRange : FilterCell(n)
    \/ \E l \in WordLists : EnumerateCell(l)
    \/ \E a \in WordLists, n \in 0..MaxLen : ZipCell(a, IntsTo(n))
    \/ Restart

SpecBuiltins == InitBuiltins /\ [][NextBuiltins]_vars

\* random.sample(range(MaxSample), k) for k <= MaxLen: any list of k distinct
\* values of the range.
Samples ==
    { l \in UNION { [1..k -> 0..(MaxSample - 1)] : k \in 0..MaxLen } :
        \A i \in 1..Len(l), j \in 1..Len(l) : i # j => l[i] # l[j] }

\* x goes before y in the order asked for.
Before(x, y, reverse) == IF reverse THEN x > y ELSE x < y

\* x put into the sorted list s, after the elements that do not come after it.
RECURSIVE Insert(_, _, _)
Insert(x, s, reverse) ==
    IF s = <<>> THEN <<x>>
    ELSE IF Before(x, Head(s), reverse) THEN <<x>> \o s
    ELSE <<Head(s)>> \o Insert(x, Tail(s), reverse)

RECURSIVE SortInto(_, _, _)
SortInto(l, s, reverse) ==
    IF l = <<>> THEN s ELSE SortInto(Tail(l), Insert(Head(l), s, reverse), reverse)

\* A sort of the list in place, as list.sort() does, that returns the list.
sortedInPlace(l, reverse) ==
    [out |-> SortInto(l, <<>>, reverse), arg |-> SortInto(l, <<>>, reverse)]

\* sorted(l, reverse=...): out is the new list returned, arg is the list
\* passed in as the call leaves it.
sorted(l, reverse) == [out |-> SortInto(l, <<>>, reverse), arg |-> l]

\* import random; rand_list = random.sample(...); print(rand_list);
\* print(sorted(rand_list)); print(sorted(rand_list, reverse=True))
SortedCell(l) ==
    /\ pc = "idle"
    /\ defined' = defined \cup {"random", "rand_list"}
    /\ cell' = Ok("sorted")
    /\ args' = <<l>>
    /\ LET up == sorted(l, FALSE)
           down == sorted(up.arg, TRUE)
       IN  /\ rand_list' = down.arg
           /\ result' = <<up.out, down.out>>
           /\ stdout' = <<ReprInts(l), ReprInts(up.out), ReprInts(down.out)>>
    /\ UNCHANGED <<pc, iterpos, total, add_seen, csvVars, pointVars, iterVars,
                   genVars>>

InitSorted == Fresh /\ csv_text = <<>>

NextSorted ==
    \/ \E l \in Samples : SortedCell(l)
    \/ Restart

SpecSorted == InitSorted /\ [][NextSorted]_vars

----------------------------------------------------------------------------
(* Claims on map, filter, zip, sorted and enumerate. *)

\* C13: for a list l of strings, list(map(upper, l)) equals
\* [upper(s) for s in l]: as long as l, and at each position the upper-cased
\* string of that position of l.
C13_MapEqualsComprehension ==
    cell = Ok("map") =>
        LET l == args[1]
        IN  /\ result[1] = result[2]
            /\ Len(result[1]) = Len(l)
            /\ \A k \in 1..Len(l) :
                  /\ Len(result[1][k]) = Len(l[k])
                  /\ \A j \in 1..Len(l[k]) :
                        result[1][k][j] = (CASE l[k][j] = "a" -> "A"
                                             [] l[k][j] = "b" -> "B"
                                             [] OTHER -> l[k][j])

\* The map cell ran on a list of three strings, two of them different.
C13_Witness ==
    /\ cell = Ok("map")
    /\ Len(args[1]) = MaxLen
    /\ args[1][1] # args[1][2]
    /\ result[1][1] # args[1][1]

\* C14: list(filter(is_even, range(n))) holds exactly the x of range(n) with
\* x % 2 = 0, in increasing order, and equals the comprehension's list.
C14_FilterKeepsEvens ==
    cell = Ok("filter_even") =>
        LET n == args[1]
            kept == result[1]
        IN  /\ kept = result[2]
            /\ {kept[k] : k \in 1..Len(kept)} = {x \in 0..(n - 1) : x % 2 = 0}
            /\ \A k \in 1..(Len(kept) - 1) : kept[k] < kept[k + 1]

\* The filter cell ran on a range with two or more even and two or more odd
\* numbers.
C14_Witness ==
    /\ cell = Ok("filter_even")
    /\ args[1] >= 4
    /\ Len(result[1]) >= 2
    /\ Len(result[1]) < args[1]

\* C15: zip(a, b) gives min(len(a), len(b)) tuples, the i-th is (a[i], b[i]),
\* so no element of the longer input beyond that length is in a tuple.
C15_ZipStopsAtShorter ==
    cell = Ok("zip") =>
        LET a == args[1]
            b == args[2]
        IN  /\ Len(result) <= Len(a)
            /\ Len(result) <= Len(b)
            /\ Len(result) = Len(a) \/ Len(result) = Len(b)
            /\ \A i \in 1..Len(result) : result[i] = <<a[i], b[i]>>

\* The zip cell ran on a list that is shorter than the tuple and not empty.
C15_Witness ==
    /\ cell = Ok("zip")
    /\ Len(args[1]) >= 1
    /\ Len(args[1]) < Len(args[2])
    /\ Len(result) = Len(args[1])

\* C16: for a list l of distinct integers, sorted(l) is a permutation of l in
\* strictly ascending order, sorted(l, reverse=True) a permutation in strictly
\* descending order, and l is afterwards what it was.
C16_SortedPermutes ==
    cell = Ok("sorted") =>
        LET l == args[1]
            up == result[1]
            down == result[2]
        IN  /\ Len(up) = Len(l)
            /\ Len(down) = Len(l)
            /\ {up[k] : k \in 1..Len(up)} = {l[k] : k \in 1..Len(l)}
            /\ {down[k] : k \in 1..Len(down)} = {l[k] : k \in 1..Len(l)}
            /\ \A k \in 1..(Len(up) - 1) : up[k] < up[k + 1]
            /\ \A k \in 1..(Len(down) - 1) : down[k] > down[k + 1]
            /\ rand_list = l

\* The sorted cell ran on a list of three values that is neither ascending
\* nor descending.
C16_Witness ==
    /\ cell = Ok("sorted")
    /\ Len(args[1]) = MaxLen
    /\ args[1][1] < args[1][2]
    /\ args[1][2] > args[1][3]
    /\ result[1] # args[1]
    /\ result[2] # args[1]

\* C17: enumerate(l) yields len(l) 2-tuples, and the k-th, counting from 0,
\* is (k, l[k]).
C17_EnumerateCountsFromZero ==
    cell = Ok("enumerate") =>
        LET l == args[1]
        IN  /\ Len(result) = Len(l)
            /\ Len(stdout) = Len(l)
            /\ \A k \in 0..(Len(l) - 1) : result[k + 1] = <<k, l[k + 1]>>

\* The enumerate cell ran on a list of three strings.
C17_Witness ==
    /\ cell = Ok("enumerate")
    /\ Len(args[1]) = MaxLen
    /\ result[MaxLen][1] = MaxLen - 1

----------------------------------------------------------------------------
(* The cell that reads the lines unsplit, and the CSV exercise with the    *)
(* kernel running a started cell on.                                       *)

\* The raw read cell up to its for statement.
RawReadBegin ==
    /\ pc = "idle"
    /\ graffiti_data_raw' = <<>>
    /\ f' = "open"
    /\ defined' = defined \cup {"graffiti_data_raw", "f"}
    /\ pc' = "raw_read"
    /\ iterpos' = 0
    /\ cell' = Running("raw_read")
    /\ stdout' = <<>>
    /\ UNCHANGED <<csv_text, out_csv, graffiti_data, just_grafitti_data,
                   filtered_values, filtered_dates, new_graffiti_data, out_file>>
    /\ UNCHANGED <<pointVars, iterVars, genVars, funcVars>>

\* One iteration of "for line in f": graffiti_data_raw.append(line.rstrip('\n'))
RawReadStep ==
    /\ pc = "raw_read"
    /\ iterpos < Len(FileLines(csv_text))
    /\ LET line == FileLines(csv_text)[iterpos + 1]
       IN  graffiti_data_raw' = Append(graffiti_data_raw, RStrip(line, NL))
    /\ defined' = defined \cup {"line"}
    /\ iterpos' = iterpos + 1
    /\ UNCHANGED <<cell, stdout, pc, csv_text, out_csv, f, graffiti_data,
                   just_grafitti_data, filtered_values, filtered_dates,
                   new_graffiti_data, out_file>>
    /\ UNCHANGED <<pointVars, iterVars, genVars, funcVars>>

\* The file is exhausted: the with block closes it, the list is printed.
RawReadEnd ==
    /\ pc = "raw_read"
    /\ iterpos = Len(FileLines(csv_text))
    /\ f' = "closed"
    /\ stdout' = <<ReprStrs(graffiti_data_raw)>>
    /\ cell' = Ok("raw_read")
    /\ pc' = "idle"
    /\ UNCHANGED <<defined, iterpos, csv_text, out_csv, graffiti_data_raw,
                   graffiti_data, just_grafitti_data, filtered_values,
                   filtered_dates, new_graffiti_data, out_file>>
    /\ UNCHANGED <<pointVars, iterVars, genVars, funcVars>>

\* What the kernel does next in a cell it has started: the next iteration of
\* the cell's for statement, or the code after it.
CellStep ==
    \/ RawReadStep \/ RawReadEnd
    \/ ReadStep \/ ReadEnd
    \/ FilterStep \/ FilterEnd
    \/ WriteStep \/ WriteEnd

\* Data rows for the runs to the end: above and at the threshold, a second
\* field that is no number, and no second field.
RunRows == { <<"J", ",", "1", "6">>, <<"F", ",", "1", "5">>, <<"J", ",", "x">>, <<"F">> }

\* Input files of a header and up to MaxRows of these rows, and the empty file.
RunFiles ==
    {<<>>} \cup { JoinLines(<<h>> \o rows, TRUE) :
                    h \in Headers, rows \in UNION { [1..n -> RunRows] : n \in 0..MaxRows } }

InitCsvRun == Fresh /\ csv_text \in RunFiles

NextCsvRun ==
    \/ RawReadBegin \/ RawReadStep \/ RawReadEnd
    \/ NextCsv

\* The CSV exercise where a cell that was started is run on: the kernel
\* executes the cell's statements one after the other until the cell ends,
\* while nothing makes the user start another cell or restart the kernel.
SpecCsvRun == InitCsvRun /\ [][NextCsvRun]_vars /\ WF_vars(CellStep)

----------------------------------------------------------------------------
(* Claims on the passes of the CSV exercise, checked under SpecCsvRun. *)

\* The filter loop has ended, by itself or by an error of its body.
FilterLoopEnded ==
    /\ pc = "idle"
    /\ cell.name = "filter"
    /\ cell.err # "NameError"

\* C18, as claimed for the filter loop: once the filter cell has ended, its
\* loop has examined each data row of the file exactly once.
C18_EachRowExaminedOnce ==
    FilterLoopEnded => iterpos = Len(just_grafitti_data)

\* A step of the for statement of the cell named c fetched the item after the
\* ones fetched so far, among n items.
FetchedNext(n) == iterpos' = iterpos + 1 /\ iterpos' <= n

\* C18, amended: every loop of the CSV exercise is a single forward pass and
\* every started cell ends.  Each reading cell takes the lines in file order,
\* one more per iteration, and ends when it has taken every line once.  The
\* filter loop takes the data rows in order, one more per iteration; it ends
\* after the last row, or at the first row whose body raises, and then the
\* rows after that one are never examined.  The write loop writes the
\* selected rows after the first in order, one per iteration, and at the end
\* of the cell out.csv holds the header and each selected row once.  A cell
\* that has started reaches its end or an error.
C18_SinglePassTerminates ==
    /\ [][/\ (pc = "raw_read" /\ pc' = "raw_read") =>
                /\ FetchedNext(Len(FileLines(csv_text)))
                /\ graffiti_data_raw' =
                     Append(graffiti_data_raw,
                            RStrip(FileLines(csv_text)[iterpos'], NL))
          /\ (pc = "raw_read" /\ pc' = "idle") =>
                /\ Len(graffiti_data_raw') = Len(FileLines(csv_text))
                /\ iterpos' = Len(FileLines(csv_text))
          /\ (pc = "read" /\ pc' = "read") =>
                /\ FetchedNext(Len(FileLines(csv_text)))
                /\ graffiti_data' =
                     Append(graffiti_data, ParseLine(FileLines(csv_text)[iterpos']))
          /\ (pc = "read" /\ pc' = "idle") =>
                /\ Len(graffiti_data') = Len(FileLines(csv_text))
                /\ iterpos' = Len(FileLines(csv_text))
          /\ (pc = "filter" /\ pc' = "filter") =>
                /\ FetchedNext(Len(just_grafitti_data))
                /\ FilterRaises(just_grafitti_data[iterpos']) = ""
          /\ (pc = "filter" /\ pc' = "idle") =>
                IF iterpos' = iterpos
                THEN iterpos = Len(just_grafitti_data)
                ELSE /\ FetchedNext(Len(just_grafitti_data))
                     /\ FilterRaises(just_grafitti_data[iterpos']) # ""
                     /\ cell'.err = FilterRaises(just_grafitti_data[iterpos'])
          /\ (pc = "write" /\ pc' = "write") =>
                /\ FetchedNext(Len(new_graffiti_data) - 1)
                /\ out_file'.buf = out_file.buf \o FormatRow(new_graffiti_data[iterpos' + 1])
          /\ (pc = "write" /\ pc' = "idle") =>
                /\ iterpos = Len(new_graffiti_data) - 1
                /\ Len(FileLines(out_csv')) = 1 + Len(new_graffiti_data)
                /\ \A k \in 1..Len(new_graffiti_data) :
                      FileLines(out_csv')[k + 1] = FormatRow(new_graffiti_data[k])]_vars
    /\ (pc # "idle") ~> (pc = "idle")

\* The filter loop has ended at a row that is no number with a row after it,
\* which it has not examined.
C18_Witness ==
    /\ FilterLoopEnded
    /\ cell.err = "ValueError"
    /\ iterpos < Len(just_grafitti_data)
    /\ Len(FileLines(csv_text)) = MaxRows + 1

----------------------------------------------------------------------------
(* Claim on the end of the write cell, checked under SpecCsv. *)

\* C19: for every filter result, the empty one included, the write cell ends
\* without an error and with out.csv closed; when no row was selected out.csv
\* then holds the header line and nothing else.  Stated for the input files
\* the read and filter cells run through without an error: a header of two
\* fields and a number in every data row.
C19_WriteCellCompletes ==
    (/\ WriteCellRan
     /\ Len(TextLines(csv_text)) >= 1
     /\ Len(Fields(TextLines(csv_text)[1])) >= 2
     /\ \A k \in 1..Len(DataLines) : HasNumber(DataLines[k])) =>
        /\ cell = Ok("write")
        /\ ~out_file.open
        /\ new_graffiti_data = <<>> => out_csv = HeaderLine

----------------------------------------------------------------------------
(* Claim on sequences of translate calls, checked under SpecTranslate. *)

\* C20: translations compose additively.  After any sequence of translate
\* calls on a Point constructed at (x0, y0), its coordinates are x0 plus the
\* sum of the dx and y0 plus the sum of the dy, which does not depend on the
\* order of the calls; and translate(dx, dy) followed by translate(-dx, -dy)
\* leaves the coordinates of every instance as they were.
C20_TranslationsAdd ==
    [][/\ \A n \in {"p1", "p2"} \cap defined' :
             /\ points'[n].x = track'[n].origin.x + track'[n].dx
             /\ points'[n].y = track'[n].origin.y + track'[n].dy
       /\ cell'.name = "translate_back" => points' = points]_vars

\* p1 was constructed at (0, 0) and p2 at (1, 1), both were moved by more than
\* one call can move them, and a call and its inverse on p2 came last.
C20_Witness ==
    /\ cell.name = "translate_back"
    /\ cell.at = "p2"
    /\ track["p1"].dx > 1 + MaxDelta
    /\ track["p2"].dy < 0 - MaxDelta
    /\ points["p2"] = Point(4 + track["p2"].dx, 4 + track["p2"].dy)

----------------------------------------------------------------------------
(* Claim on the first line of the input, checked under SpecCsv. *)

\* C21: the first line of the input is always treated as the header.  The
\* filter loop runs over the lines after the first and no others, so the
\* first line is never compared against 15; what is selected and what is
\* written to out.csv comes from lines after the first whose second field is
\* above 15, even when the first line has such a field; and the first line of
\* out.csv, on disk and in the buffer of out_file, is the literal header.
C21_FirstLineIsHeader ==
    LET lines == TextLines(csv_text)
        kept == {k \in 2..Len(lines) : Above15(lines[k])}
    IN  /\ "just_grafitti_data" \in defined =>
              /\ Len(just_grafitti_data) = (IF lines = <<>> THEN 0 ELSE Len(lines) - 1)
              /\ \A k \in 1..Len(just_grafitti_data) :
                    just_grafitti_data[k] = Fields(lines[k + 1])
        /\ Len(filtered_dates) <= Cardinality(kept)
        /\ \A i \in 1..Len(filtered_dates) :
              \E k \in kept : /\ filtered_dates[i] = Fields(lines[k])[1]
                              /\ filtered_values[i] = Fields(lines[k])[2]
        /\ \A l \in WrittenDataLines :
              \E k \in kept : Fields(l) = FirstTwo(lines[k])
        /\ out_csv # <<>> => FileLines(out_csv)[1] = HeaderLine
        /\ out_file.buf # <<>> => FileLines(out_file.buf)[1] = HeaderLine

\* The write cell has run to its end on a file whose first line is H,99 and
\* which has a row above 15: out.csv starts with the literal header and holds
\* a data line, and H,99 is not in it.
C21_Witness ==
    /\ cell = Ok("write")
    /\ TextLines(csv_text)[1] = <<"H", ",", "9", "9">>
    /\ Above15(TextLines(csv_text)[1])
    /\ FileLines(out_csv)[1] = HeaderLine
    /\ WrittenDataLines # {}
    /\ <<"H", ",", "9", "9">> \notin WrittenLines

====
